---- MODULE Spec2Model ----
(***************************************************************************)
(* European Defense Stocks Tracker.                                        *)
(*                                                                         *)
(* The repository holds two variants of the page script:                   *)
(*   "app"  : src/app.js, which fetches through a list of CORS proxies     *)
(*            and derives the windows from positions in the close array;   *)
(*   "part" : src/unnamed/part_000, which fetches through one proxy and    *)
(*            derives the windows with findClosestPrice.                   *)
(*                                                                         *)
(* JavaScript values are encoded as integers: a price is a natural         *)
(* number, null is NULL and undefined is UNDEF.                            *)
(***************************************************************************)
EXTENDS Integers, Sequences, FiniteSets, TLC

VARIABLES
    lk,               \* SpecLookup: a call of findClosestPrice
    ft, ftCall,       \* SpecFetch: a call of the fetcher
    calc,             \* SpecCalc: a call of fetchStockPerformance
    rows,             \* the cells of the table, per ticker
    performanceData,  \* the cache, per ticker
    script,           \* Spec: which script the page runs, "app" or "part"
    isLoading,        \* the flag of fetchAllStockData
    tasks,            \* the activations of the batch functions
    container,        \* the custom-dates container
    alert,            \* the last alert shown
    runs,             \* how many times the user has asked for a batch
    since,            \* SpecSince: a call of fetchPerformanceSinceDate
    form              \* SpecForm: the values of the three date inputs

vars ==
    <<lk, ft, ftCall, calc, rows, performanceData, script, isLoading, tasks,
      container, alert, runs, since, form>>

pageVars == <<script, isLoading, tasks, container, alert, runs>>

----------------------------------------------------------------------------
(* JavaScript values *)

NULL == -1

UNDEF == -2

\* Infinity, as the initial closestDiff of findClosestPrice
INFINITY == -3

\* !v for the values a price can take: null, undefined and 0 are falsy
Truthy(v) == v \notin {NULL, UNDEF, 0}

\* a[i] of a JavaScript array held as a sequence (0-based index i)
At(a, i) == IF i >= 0 /\ i < Len(a) THEN a[i + 1] ELSE UNDEF

Abs(x) == IF x < 0 THEN -x ELSE x

\* all sequences over S of length at most n
SeqsUpTo(S, n) == UNION {[1..k -> S] : k \in 0..n}

\* timestamps in ascending order, as the provider answers them
Ascending(ts) == \A i \in 1..(Len(ts) - 1) : ts[i] <= ts[i + 1]

\* obj[key] = value on an object held as a function
Put(obj, key, value) ==
    [k \in DOMAIN obj \cup {key} |-> IF k = key THEN value ELSE obj[k]]

----------------------------------------------------------------------------
(* Nearest-price lookup, part_000 *)

Day == 86400

\* 5 * 24 * 60 * 60
Tolerance == 5 * Day

\* One iteration of the for loop of findClosestPrice: st is
\* [idx |-> closestIndex, diff |-> closestDiff]
ClosestStepOffByOne(st, timestamps, closes, targetTimestamp, i) ==
    LET diff == Abs(timestamps[i + 1] - targetTimestamp)
    IN IF (st.diff = INFINITY \/ diff <= st.diff) /\ At(closes, i) # NULL
       THEN [idx |-> i, diff |-> diff]
       ELSE st

ClosestStep(st, timestamps, closes, targetTimestamp, i) ==
    LET diff == Abs(timestamps[i + 1] - targetTimestamp)
    IN IF (st.diff = INFINITY \/ diff < st.diff) /\ At(closes, i) # NULL
       THEN [idx |-> i, diff |-> diff]
       ELSE st

\* The loop, iterations 0 .. n-1
RECURSIVE ClosestScan(_, _, _, _)
ClosestScan(timestamps, closes, targetTimestamp, n) ==
    IF n = 0
    THEN [idx |-> -1, diff |-> INFINITY]
    ELSE ClosestStep(ClosestScan(timestamps, closes, targetTimestamp, n - 1),
                     timestamps, closes, targetTimestamp, n - 1)

findClosestPrice(timestamps, closes, targetTimestamp) ==
    LET st == ClosestScan(timestamps, closes, targetTimestamp, Len(timestamps))
    IN IF st.idx >= 0 /\ st.diff < Tolerance
       THEN At(closes, st.idx)
       ELSE NULL

\* The lookup's state when no lookup is in progress
LookupIdle == [timestamps |-> <<>>, closes |-> <<>>, done |-> TRUE, out |-> NULL]

----------------------------------------------------------------------------
(* Relay responses and the fetcher, app.js *)

\* CORS_PROXIES: allorigins raw, allorigins get (wrapped), corsproxy.io
CORS_PROXIES == <<[wrapped |-> FALSE], [wrapped |-> TRUE], [wrapped |-> FALSE]>>

\* A payload, the JSON the provider answers:
\*   shape "noResult": no chart.result[0];
\*   shape "noQuote" : chart.result[0] without indicators.quote[0];
\*   shape "result"  : chart.result[0] with indicators.quote[0], whose
\*                     timestamp and close arrays may each be missing.
Payload(shape, hasTs, ts, hasCl, cl) ==
    [shape |-> shape, hasTimestamp |-> hasTs, timestamp |-> ts,
     hasClose |-> hasCl, close |-> cl]

NoPayload == Payload("noResult", FALSE, <<>>, FALSE, <<>>)

ResultPayloads(TsSet, ClSet) ==
    {Payload("result", TRUE, ts, TRUE, cl) : ts \in TsSet, cl \in ClSet}
    \cup {Payload("result", FALSE, <<>>, TRUE, cl) : cl \in ClSet}
    \cup {Payload("result", TRUE, ts, FALSE, <<>>) : ts \in TsSet}

\* A response of a relay:
\*   status "neterr": fetch rejects;  "fail": response.ok is false;
\*   status "ok" with body "garbage" (not JSON), "plain" (the payload
\*   verbatim) or "wrapped" ({contents: string}); a wrapped body's string is
\*   the payload's JSON ("json") or not JSON at all ("garbage").
Response(status, body, inner, payload) ==
    [status |-> status, body |-> body, inner |-> inner, payload |-> payload]

ResponsesOver(Payloads) ==
    {Response("neterr", "none", "none", NoPayload),
     Response("fail", "none", "none", NoPayload),
     Response("ok", "garbage", "none", NoPayload),
     Response("ok", "wrapped", "garbage", NoPayload)}
    \cup {Response("ok", "plain", "none", p) : p \in Payloads}
    \cup {Response("ok", "wrapped", "json", p) : p \in Payloads}

Series(ts, cl) == [timestamps |-> ts, closes |-> cl]

NoSeries == Series(<<>>, <<>>)

Outcome(kind, value) == [kind |-> kind, value |-> value]

\* The value of `data` after lines 164-170: "throw" when response.json() or
\* JSON.parse throws (a body that is not JSON; for a wrapped proxy also a
\* body without a `contents` string holding JSON), else the parsed object: a
\* {contents: ...} envelope read by a proxy that is not wrapped has no chart.
Decode(proxy, resp) ==
    IF proxy.wrapped
    THEN IF resp.body = "wrapped" /\ resp.inner = "json"
         THEN Outcome("data", resp.payload)
         ELSE Outcome("throw", NoPayload)
    ELSE IF resp.body = "garbage" THEN Outcome("throw", NoPayload)
    ELSE IF resp.body = "wrapped" THEN Outcome("data", NoPayload)
    ELSE Outcome("data", resp.payload)

\* result.timestamp || [] and result.indicators.quote[0].close || []: a
\* missing array is held as <<>> in the payload
SeriesOf(payload) == Series(payload.timestamp, payload.close)

\* The body of the try block of one loop iteration: "return" a series,
\* "continue" with the next proxy, or "throw"
TryBodyValidating(proxy, resp) ==
    IF resp.status = "neterr" THEN Outcome("throw", NoSeries)
    ELSE IF resp.status # "ok" THEN Outcome("continue", NoSeries)
    ELSE LET data == Decode(proxy, resp)
         IN IF data.kind = "throw" THEN Outcome("throw", NoSeries)
            ELSE IF data.value.shape = "noResult" THEN Outcome("continue", NoSeries)
            ELSE IF data.value.shape = "noQuote" THEN Outcome("throw", NoSeries)
            ELSE IF ~data.value.hasTimestamp THEN Outcome("continue", NoSeries)
            ELSE IF Len(data.value.timestamp) # Len(data.value.close)
                 THEN Outcome("continue", NoSeries)
            ELSE Outcome("return", SeriesOf(data.value))

TryBody(proxy, resp) ==
    IF resp.status = "neterr" THEN Outcome("throw", NoSeries)
    ELSE IF resp.status # "ok" THEN Outcome("continue", NoSeries)
    ELSE LET data == Decode(proxy, resp)
         IN IF data.kind = "throw" THEN Outcome("throw", NoSeries)
            ELSE IF data.value.shape = "noResult" THEN Outcome("continue", NoSeries)
            ELSE IF data.value.shape = "noQuote" THEN Outcome("throw", NoSeries)
            ELSE Outcome("return", SeriesOf(data.value))

\* One loop iteration with its catch clause
IterationNoCatch(proxy, resp) == TryBody(proxy, resp)

Iteration(proxy, resp) ==
    LET o == TryBody(proxy, resp)
    IN IF o.kind = "throw" THEN Outcome("continue", NoSeries) ELSE o

\* A call of fetchYahooData or fetchYahooDataByPeriod in progress:
\*   proxy     the index (1-based) of the endpoint whose request is awaited,
\*   requested the endpoints requested so far, in order,
\*   received  the responses received so far, in order,
\*   status    "idle", "running", "returned" (a series), "null" or "raised".
Frame(proxy, requested, received, status, value) ==
    [proxy |-> proxy, requested |-> requested, received |-> received,
     status |-> status, value |-> value]

IdleFrame == Frame(0, <<>>, <<>>, "idle", NoSeries)

\* ftCall: which fetcher the call in ft is of, and how the call before it
\* ended ("none" before the first call)
NoCall == [fn |-> "none", prev |-> "none"]

\* The call up to its first await: the request to the first endpoint
StartFrame == Frame(1, <<1>>, <<>>, "running", NoSeries)

\* The next endpoint after a failed iteration
NextProxySkipping(i) == i + 2

NextProxy(i) == i + 1

\* The continuation of the call when the awaited response arrives, up to the
\* next await or the return
OnResponse(f, resp) ==
    LET o == Iteration(CORS_PROXIES[f.proxy], resp)
        got == Append(f.received, resp)
        next == NextProxy(f.proxy)
    IN IF o.kind = "return"
       THEN Frame(f.proxy, f.requested, got, "returned", o.value)
       ELSE IF o.kind = "throw"
       THEN Frame(f.proxy, f.requested, got, "raised", NoSeries)
       ELSE IF next > Len(CORS_PROXIES)
       THEN Frame(f.proxy, f.requested, got, "null", NoSeries)
       ELSE Frame(next, Append(f.requested, next), got, "running", NoSeries)

----------------------------------------------------------------------------
(* Percentages, the performance object and the table rows *)

\* PERIODS
PERIODS == <<"1d", "1w", "3m", "12m", "ytd">>

Periods == {PERIODS[i] : i \in 1..Len(PERIODS)}

\* A JavaScript number that is the outcome of a percentage computation: the
\* exact quotient n / d (d > 0), NaN, Infinity or -Infinity; and null
Num(n, d) == [k |-> "num", n |-> n, d |-> d]

NaN == [k |-> "NaN", n |-> 0, d |-> 1]

PlusInfinity == [k |-> "Infinity", n |-> 0, d |-> 1]

MinusInfinity == [k |-> "-Infinity", n |-> 0, d |-> 1]

NullValue == [k |-> "null", n |-> 0, d |-> 1]

\* Number(v) of a price or null: null converts to 0
ToNumber(v) == IF v = NULL THEN 0 ELSE v

\* ((currentPrice - price) / price) * 100 in JavaScript arithmetic: undefined
\* makes NaN, a division by 0 makes NaN or an infinity
PercentChange(currentPrice, price) ==
    IF currentPrice = UNDEF \/ price = UNDEF THEN NaN
    ELSE LET c == ToNumber(currentPrice)
             h == ToNumber(price)
         IN IF h = 0
            THEN IF c = 0 THEN NaN
                 ELSE IF c > 0 THEN PlusInfinity ELSE MinusInfinity
            ELSE Num((c - h) * 100, h)

\* performance = {}
EmptyPerformance == [p \in {} |-> NullValue]

\* closes.find(p => p !== null): the first element that is not null,
\* undefined when there is none
Find(closes) ==
    LET S == {i \in 1..Len(closes) : closes[i] # NULL}
    IN IF S = {} THEN UNDEF
       ELSE closes[CHOOSE i \in S : \A j \in S : i <= j]

\* A cell of the table: its text is "Loading...", "Error", "--" or a
\* formatted percentage (text "pct": sign, then hundredths of a percent in
\* two decimals, or the words NaN / Infinity)
Cell(text, sign, word, hundredths) ==
    [text |-> text, sign |-> sign, word |-> word, hundredths |-> hundredths]

LoadingCell == Cell("Loading...", "", "", 0)

ErrorCell == Cell("Error", "", "", 0)

DashCell == Cell("--", "", "", 0)

\* |n| / d in hundredths, rounded to the nearest (toFixed(2))
ToFixed2(n, d) == (2 * Abs(n) * 100 + d) \div (2 * d)

\* (value >= 0 ? '+' : '') + value.toFixed(2) + '%'
Formatted(value) ==
    IF value.k = "num"
    THEN Cell("pct", IF value.n >= 0 THEN "+" ELSE "-", "", ToFixed2(value.n, value.d))
    ELSE IF value.k = "Infinity" THEN Cell("pct", "+", "Infinity", 0)
    ELSE IF value.k = "-Infinity" THEN Cell("pct", "-", "Infinity", 0)
    ELSE Cell("pct", "", "NaN", 0)

\* updateStockRow: the cells of one row
StockRow(performance) ==
    [p \in Periods |->
        IF p \in DOMAIN performance /\ performance[p].k # "null"
        THEN Formatted(performance[p])
        ELSE DashCell]

\* updateStockRowError
ErrorRow == [p \in Periods |-> ErrorCell]

\* buildPerformanceTable
LoadingRow == [p \in Periods |-> LoadingCell]

----------------------------------------------------------------------------
(* calculatePerformance, part_000 *)

\* the clock: now (seconds) and the start of the current year (seconds)
Clock(now, startOfYear) == [now |-> now, startOfYear |-> startOfYear]

\* periods: days back per window; ytd is the special case
Days == [p \in Periods \ {"ytd"} |->
            IF p = "1d" THEN 1 ELSE IF p = "1w" THEN 7 ELSE IF p = "3m" THEN 90 ELSE 365]

TargetTimestamp(period, clock) ==
    IF period = "ytd" THEN clock.startOfYear ELSE clock.now - Days[period] * Day

\* One iteration of the loop over the periods
PeriodStepOmitting(performance, period, timestamps, closes, currentPrice, clock) ==
    LET historicalPrice ==
            findClosestPrice(timestamps, closes, TargetTimestamp(period, clock))
    IN IF Truthy(historicalPrice) /\ Truthy(currentPrice)
       THEN Put(performance, period, PercentChange(currentPrice, historicalPrice))
       ELSE performance

PeriodStep(performance, period, timestamps, closes, currentPrice, clock) ==
    LET historicalPrice ==
            findClosestPrice(timestamps, closes, TargetTimestamp(period, clock))
    IN IF Truthy(historicalPrice) /\ Truthy(currentPrice)
       THEN Put(performance, period, PercentChange(currentPrice, historicalPrice))
       ELSE Put(performance, period, NullValue)

\* The loop over the first n periods
RECURSIVE PeriodLoop(_, _, _, _, _)
PeriodLoop(n, timestamps, closes, currentPrice, clock) ==
    IF n = 0
    THEN EmptyPerformance
    ELSE PeriodStep(PeriodLoop(n - 1, timestamps, closes, currentPrice, clock),
                    PERIODS[n], timestamps, closes, currentPrice, clock)

calculatePerformance(timestamps, closes, currentPrice, clock) ==
    PeriodLoop(Len(PERIODS), timestamps, closes, currentPrice, clock)

\* The historical price each window's computation used
HistoricalPrices(timestamps, closes, clock) ==
    [p \in Periods |-> findClosestPrice(timestamps, closes, TargetTimestamp(p, clock))]

----------------------------------------------------------------------------
(* fetchStockPerformance *)

\* An activation of fetchStockPerformance(ticker):
\*   pc           "idle", "await" or "done"
\*   call         the await it is suspended at: in app.js 1 (1mo), 2 (3 month),
\*                3 (12 month), 4 (YTD); in part_000 always 1
\*   closes       cl1m (app.js) or closes (part_000), <<>> before it is set
\*   currentPrice the latest price the computations use
\*   performance  the performance object built so far
\*   historical   per window, the historical price its computation looked up
\*   effect       what the activation did to the row and the cache when it
\*                ended: "none", "error" (updateStockRowError) or "update"
\*                (updateStockRow and performanceData[ticker] = performance)
Local(pc, call, closes, currentPrice, performance, historical, effect) ==
    [pc |-> pc, call |-> call, closes |-> closes, currentPrice |-> currentPrice,
     performance |-> performance, historical |-> historical, effect |-> effect]

NoHistory == [p \in {} |-> NULL]

IdleLocal == Local("idle", 0, <<>>, UNDEF, EmptyPerformance, NoHistory, "none")

\* The activation up to its first await
StartLocal == Local("await", 1, <<>>, UNDEF, EmptyPerformance, NoHistory, "none")

Failed(l) == Local("done", l.call, l.closes, l.currentPrice, l.performance, l.historical, "error")

Returned(l) == Local("done", l.call, l.closes, l.currentPrice, l.performance, l.historical, "none")

\* app.js lines 90-103: data1m has arrived
After1m(cl1m) ==
    LET currentPrice == At(cl1m, Len(cl1m) - 1)
        prevClose == At(cl1m, Len(cl1m) - 2)
        weekAgoPrice == At(cl1m, Len(cl1m) - 6)
        p1 == IF Len(cl1m) >= 2
              THEN Put(EmptyPerformance, "1d", PercentChange(currentPrice, prevClose))
              ELSE EmptyPerformance
        p2 == IF Len(cl1m) >= 6
              THEN Put(p1, "1w", PercentChange(currentPrice, weekAgoPrice))
              ELSE p1
        h1 == IF Len(cl1m) >= 2 THEN Put(NoHistory, "1d", prevClose) ELSE NoHistory
        h2 == IF Len(cl1m) >= 6 THEN Put(h1, "1w", weekAgoPrice) ELSE h1
    IN Local("await", 2, cl1m, currentPrice, p2, h2, "none")

\* the window the await number `call` of app.js fetches the data of
PeriodOfCall(call) == PERIODS[call + 1]

\* app.js lines 110-116, 120-126, 131-137: the period data has arrived
\* (status "null" when the fetcher returned null)
AfterPeriod(l, status, series) ==
    LET period == PeriodOfCall(l.call)
        found == status = "returned" /\ Len(series.closes) > 0
        firstPrice == Find(series.closes)
        performance ==
            IF found /\ Truthy(firstPrice)
            THEN Put(l.performance, period, PercentChange(l.currentPrice, firstPrice))
            ELSE l.performance
        historical ==
            IF found THEN Put(l.historical, period, firstPrice) ELSE l.historical
    IN IF l.call = 4
       THEN Local("done", l.call, l.closes, l.currentPrice, performance, historical, "update")
       ELSE Local("await", l.call + 1, l.closes, l.currentPrice, performance, historical, "none")

\* app.js fetchStockPerformance resumed with the result of the fetcher call
\* it awaits: status is "returned" (with the series), "null" or "raised"
AppOnResult(l, status, series) ==
    IF status = "raised" THEN Failed(l)
    ELSE IF l.call = 1
    THEN IF status = "null" THEN Failed(l) ELSE After1m(series.closes)
    ELSE AfterPeriod(l, status, series)

\* part_000: CORS_PROXY answers the payload verbatim
CORS_PROXY == [wrapped |-> FALSE]

\* part_000 fetchStockPerformance resumed with the response of its fetch
PartOnResponse(l, resp, clock) ==
    IF resp.status # "ok" THEN Failed(l)
    ELSE LET data == Decode(CORS_PROXY, resp)
             result == data.value
             closes == result.close
             currentPrice == At(closes, Len(closes) - 1)
         IN IF data.kind = "throw" THEN Failed(l)
            ELSE IF result.shape = "noResult" THEN Returned(l)
            ELSE IF result.shape = "noQuote" THEN Failed(l)
            ELSE IF ~result.hasClose \/ Len(closes) = 0 THEN Returned(l)
            ELSE IF ~result.hasTimestamp
                 THEN Local("done", 1, closes, currentPrice, EmptyPerformance,
                            NoHistory, "error")
            ELSE Local("done", 1, closes, currentPrice,
                       calculatePerformance(result.timestamp, closes, currentPrice, clock),
                       HistoricalPrices(result.timestamp, closes, clock),
                       "update")

\* The row of the ticker after the activation ended
RowAfter(row, l) ==
    IF l.effect = "error" THEN ErrorRow
    ELSE IF l.effect = "update" THEN StockRow(l.performance)
    ELSE row

\* performanceData[ticker]: has is false while the cache has no entry
Cached(performance) == [has |-> TRUE, performance |-> performance]

NotCached == [has |-> FALSE, performance |-> EmptyPerformance]

CacheAfter(entry, l) ==
    IF l.effect = "update" THEN Cached(l.performance) ELSE entry

\* STOCKS, by ticker
Tickers ==
    <<"BA.L", "RHM.DE", "LDO.MI", "HO.PA", "RR.L", "SAAB-B.ST", "AIR.PA",
      "SAF.PA", "MTX.DE", "AM.PA">>

\* how many of the ten stocks the model tracks
NumStocks == 2

STOCKS == SubSeq(Tickers, 1, NumStocks)

StockSet == {STOCKS[i] : i \in 1..Len(STOCKS)}

----------------------------------------------------------------------------
(* fetchPerformanceSinceDate and the custom date *)

\* the first and the last close that is not null, null when there is none
firstPrice(closes) ==
    LET S == {i \in 1..Len(closes) : closes[i] # NULL}
    IN IF S = {} THEN NULL ELSE closes[CHOOSE i \in S : \A j \in S : i <= j]

lastPrice(closes) ==
    LET S == {i \in 1..Len(closes) : closes[i] # NULL}
    IN IF S = {} THEN NULL ELSE closes[CHOOSE i \in S : \A j \in S : i >= j]

\* lines 385-389 of app.js, 349-353 of part_000
SinceFirst(closes) ==
    IF Truthy(firstPrice(closes)) /\ Truthy(lastPrice(closes))
    THEN Outcome("value", PercentChange(lastPrice(closes), firstPrice(closes)))
    ELSE Outcome("value", NullValue)

\* app.js fetchPerformanceSinceDate resumed with the result of the fetcher
SinceDateApp(status, series) ==
    IF status # "returned" \/ Len(series.closes) < 1
    THEN Outcome("throw", NullValue)
    ELSE SinceFirst(series.closes)

\* part_000 fetchPerformanceSinceDate resumed with the response of its fetch
SinceDatePart(resp) ==
    IF resp.status # "ok" THEN Outcome("throw", NullValue)
    ELSE LET data == Decode(CORS_PROXY, resp)
         IN IF data.kind = "throw" \/ data.value.shape # "result"
            THEN Outcome("throw", NullValue)
            ELSE IF ~data.value.hasClose \/ Len(data.value.close) < 2
            THEN Outcome("throw", NullValue)
            ELSE SinceFirst(data.value.close)

\* parseInt of an input that holds no number
NAN == -4

\* the day, month and year parsed from the three inputs
Date(day, month, year) == [day |-> day, month |-> month, year |-> year]

NoDate == Date(NAN, NAN, NAN)

\* the value of an input: its leading digits as a number (NAN when it does
\* not start with a digit) and the text after them ("" when there is none)
Field(digits, tail) == [digits |-> digits, tail |-> tail]

\* parseInt reads the leading digits and ignores what follows them
parseInt(field) == field.digits

\* the three inputs
Form(day, month, year) == [day |-> day, month |-> month, year |-> year]

FormIdle == Form(Field(NAN, ""), Field(NAN, ""), Field(NAN, ""))

\* lines 310-312
ParsedDate(f) == Date(parseInt(f.day), parseInt(f.month), parseInt(f.year))

\* !day || !month || !year
MissingField(date) == \E v \in {date.day, date.month, date.year} : v \in {NAN, 0}

OutOfRange(date) ==
    \/ date.day < 1 \/ date.day > 31
    \/ date.month < 1 \/ date.month > 12
    \/ date.year < 2000 \/ date.year > 2100

\* the custom-dates container: "empty", "loading" (Fetching data...) or
\* "results" (the table of displayCustomDateResults)
Container(state, date, results) == [state |-> state, date |-> date, results |-> results]

EmptyContainer == Container("empty", NoDate, <<>>)

\* an entry of results
Result(ticker, performance, error) ==
    [ticker |-> ticker, performance |-> performance, error |-> error]

\* since: one call of fetchPerformanceSinceDate(ticker, targetDate) in a
\* variant of the script
\*   status, series  what the fetcher call returned (app.js)
\*   response        how the fetch settled (part_000)
\*   done, out       whether the call has ended, and how
Since(variant, status, series, response, done, out) ==
    [variant |-> variant, status |-> status, series |-> series,
     response |-> response, done |-> done, out |-> out]

SinceIdle ==
    Since("none", "null", NoSeries, Response("none", "none", "none", NoPayload),
          FALSE, Outcome("none", NullValue))

----------------------------------------------------------------------------
(* The batches: fetchAllStockData and fetchCustomDatePerformance *)

\* An activation of a batch function:
\*   kind    "none", "all" (fetchAllStockData) or "custom"
\*   pc      "fetch" (awaits the network), "sleep" (awaits sleep(300)),
\*           "done", or "aborted" (an exception left the loop)
\*   idx     the position in STOCKS of the stock of the current iteration
\*   visited the tickers of the iterations begun so far, in order
\*   local   the activation of fetchStockPerformance of this iteration
\*   date    the custom date, results the custom results so far
Task(kind, pc, idx, visited, local, date, results) ==
    [kind |-> kind, pc |-> pc, idx |-> idx, visited |-> visited, local |-> local,
     date |-> date, results |-> results]

NoTask == Task("none", "done", 0, <<>>, IdleLocal, NoDate, <<>>)

\* The loop enters the iteration of STOCKS[idx], up to its first await
Enter(task, idx) ==
    [task EXCEPT !.pc = "fetch", !.idx = idx,
                 !.visited = Append(task.visited, STOCKS[idx]),
                 !.local = IF task.kind = "all" THEN StartLocal ELSE IdleLocal]

\* The loop is left
Leave(task) == [task EXCEPT !.pc = "done", !.local = IdleLocal]

\* fetchAllStockData past its guard, fetchCustomDatePerformance past its checks
StartAll == Enter(Task("all", "fetch", 0, <<>>, IdleLocal, NoDate, <<>>), 1)

StartCustom(date) == Enter(Task("custom", "fetch", 0, <<>>, IdleLocal, date, <<>>), 1)

\* catch (error) of the custom loop: the error entry, then the next iteration
CustomNoCatch(task) == [task EXCEPT !.pc = "aborted"]

CustomCatch(task) ==
    [task EXCEPT !.pc = "next",
                 !.results = Append(task.results,
                                    Result(STOCKS[task.idx], NullValue, TRUE))]

\* The iteration of the custom loop resumed with the outcome of
\* fetchPerformanceSinceDate: the entry and sleep(300), or the catch
CustomAfter(task, o) ==
    IF o.kind = "throw"
    THEN CustomCatch(task)
    ELSE [task EXCEPT !.pc = "sleep",
                      !.results = Append(task.results,
                                         Result(STOCKS[task.idx], o.value, FALSE))]

\* The table after buildPerformanceTable, the cache without entries
NoRows == [t \in StockSet |-> LoadingRow]

NoCache == [t \in StockSet |-> NotCached]

\* calc: one call of fetchStockPerformance(ticker) in a variant of the script
\*   response   the response it was resumed with (part_000)
\*   clock      the time of the call
Calc(variant, ticker, clock, l, response) ==
    [variant |-> variant, ticker |-> ticker, clock |-> clock, l |-> l,
     response |-> response]

NoResponse == Response("none", "none", "none", NoPayload)

CalcIdle == Calc("none", "none", Clock(0, 0), IdleLocal, NoResponse)

\* how many times the user asks for a batch after the page has loaded
MaxRuns == 1

Slots == 1..(MaxRuns + 1)

\* The page's state when no page is loaded
PageIdle ==
    /\ script = "none" /\ isLoading = FALSE
    /\ tasks = [t \in Slots |-> NoTask]
    /\ container = EmptyContainer /\ alert = "" /\ runs = 0

----------------------------------------------------------------------------
(* Specification SpecFetch: calls of the fetcher against every combination *)
(* of relay responses                                                      *)

FetchTimes == {<<>>, <<1 * Day>>, <<1 * Day, 2 * Day>>}

FetchCloses == {<<>>, <<100>>, <<100, NULL>>}

FetchPayloads ==
    {NoPayload, Payload("noQuote", FALSE, <<>>, FALSE, <<>>)}
    \cup ResultPayloads(FetchTimes, FetchCloses)

FetchResponses == ResponsesOver(FetchPayloads)

FetchInit ==
    /\ ft = IdleFrame /\ ftCall = NoCall /\ lk = LookupIdle
    /\ calc = CalcIdle /\ rows = NoRows /\ performanceData = NoCache
    /\ PageIdle
    /\ since = SinceIdle /\ form = FormIdle

\* fetchYahooData(ticker, range) or fetchYahooDataByPeriod(ticker, p1, p2) is
\* called, up to its first await: a new call, whatever the earlier calls met
FetchCall ==
    /\ ft.status # "running"
    /\ ft' = StartFrame
    /\ \E fn \in {"fetchYahooData", "fetchYahooDataByPeriod"} :
          ftCall' = [fn |-> fn, prev |-> IF ft.status = "idle" THEN "none" ELSE ft.status]

\* The awaited response arrives
FetchRespond ==
    /\ ft.status = "running"
    /\ \E resp \in FetchResponses : ft' = OnResponse(ft, resp)
    /\ UNCHANGED ftCall

FetchNext ==
    \/ FetchCall /\ UNCHANGED <<lk, calc, rows, performanceData, pageVars, since, form>>
    \/ FetchRespond /\ UNCHANGED <<lk, calc, rows, performanceData, pageVars, since, form>>

SpecFetch == FetchInit /\ [][FetchNext]_vars

----------------------------------------------------------------------------
(* Specification SpecCalc: fetchStockPerformance of one symbol, against     *)
(* every fetch outcome and every short series                               *)

\* longest series the lookup is applied to
MaxLen == 3

\* longest 1mo close array
MaxCloses == 6

CalcNow == 1000 * Day

CalcClocks == {Clock(CalcNow, CalcNow - 3 * Day), Clock(CalcNow, CalcNow - 90 * Day)}

\* app.js: what fetchYahooData(ticker, '1mo') can return besides null
TimesFor(cl) == [i \in 1..Len(cl) |-> i * Day]

Calc1mCloses ==
    SeqsUpTo({NULL, 100}, MaxCloses) \cup SeqsUpTo({NULL, 0, 100}, 2)

Calc1mSeries == {Series(TimesFor(cl), cl) : cl \in Calc1mCloses}

\* app.js: what fetchYahooDataByPeriod can return besides null
CalcPeriodSeries == {Series(TimesFor(cl), cl) : cl \in SeqsUpTo({NULL, 0, 110}, 2)}

\* part_000: the timestamps of the answered series lie on the targets of the
\* windows, or 5 days before the target of 1w
CalcTimes == {CalcNow - d * Day : d \in {365, 90, 12, 7, 1, 0}}

\* series of equally many timestamps and closes
CalcPaired ==
    UNION {{Payload("result", TRUE, ts, TRUE, cl) :
               ts \in {x \in [1..n -> CalcTimes] : Ascending(x)},
               cl \in [1..n -> {NULL, 0, 100}]} : n \in 0..MaxLen}

\* payloads with a missing array
CalcUnpaired ==
    {Payload("result", FALSE, <<>>, TRUE, cl) : cl \in {<<>>, <<100>>, <<100, NULL>>}}
    \cup {Payload("result", TRUE, ts, FALSE, <<>>) : ts \in {<<>>, <<CalcNow - Day>>}}

CalcResponses ==
    ResponsesOver({NoPayload, Payload("noQuote", FALSE, <<>>, FALSE, <<>>)}
                  \cup CalcUnpaired)
    \cup {Response("ok", "plain", "none", p) : p \in CalcPaired}

\* app.js does not read the clock but to build its requests
CalcInit ==
    /\ \E t \in StockSet :
          \/ calc = Calc("app", t, Clock(CalcNow, CalcNow - 3 * Day), IdleLocal, NoResponse)
          \/ \E c \in CalcClocks : calc = Calc("part", t, c, IdleLocal, NoResponse)
    /\ rows = NoRows
    /\ performanceData = NoCache
    /\ lk = LookupIdle /\ ft = IdleFrame /\ ftCall = NoCall
    /\ PageIdle
    /\ since = SinceIdle /\ form = FormIdle

\* fetchStockPerformance(ticker) is called, up to its first await
CalcStart ==
    /\ calc.l.pc = "idle"
    /\ calc' = [calc EXCEPT !.l = StartLocal]
    /\ UNCHANGED <<rows, performanceData>>

\* The activation ends or suspends again: its effect on the row and the cache
CalcResume(l, response) ==
    /\ calc' = [calc EXCEPT !.l = l, !.response = response]
    /\ rows' = [rows EXCEPT ![calc.ticker] = RowAfter(@, l)]
    /\ performanceData' = [performanceData EXCEPT ![calc.ticker] = CacheAfter(@, l)]

\* app.js: the awaited fetcher call returns null
CalcAppNull ==
    /\ calc.variant = "app" /\ calc.l.pc = "await"
    /\ CalcResume(AppOnResult(calc.l, "null", NoSeries), NoResponse)

\* app.js: the awaited fetcher call returns a series
CalcAppSeries ==
    /\ calc.variant = "app" /\ calc.l.pc = "await"
    /\ \E series \in IF calc.l.call = 1 THEN Calc1mSeries ELSE CalcPeriodSeries :
          CalcResume(AppOnResult(calc.l, "returned", series), NoResponse)

\* part_000: the awaited fetch settles
CalcPartResponse ==
    /\ calc.variant = "part" /\ calc.l.pc = "await"
    /\ \E resp \in CalcResponses :
          CalcResume(PartOnResponse(calc.l, resp, calc.clock), resp)

CalcNext ==
    \/ CalcStart /\ UNCHANGED <<lk, ft, ftCall, pageVars, since, form>>
    \/ CalcAppNull /\ UNCHANGED <<lk, ft, ftCall, pageVars, since, form>>
    \/ CalcAppSeries /\ UNCHANGED <<lk, ft, ftCall, pageVars, since, form>>
    \/ CalcPartResponse /\ UNCHANGED <<lk, ft, ftCall, pageVars, since, form>>

SpecCalc == CalcInit /\ [][CalcNext]_vars

----------------------------------------------------------------------------
(* Specification SpecLookup: findClosestPrice applied to bounded inputs *)

\* the target of the lookups, seconds since the epoch
LookupTarget == 100 * Day

\* timestamps around the target: on it, one second and one day either side,
\* and on either side of the tolerance
LookupTimes ==
    {LookupTarget + d : d \in {-Tolerance, 1 - Tolerance, -Day, -1, 0, 1, Day,
                               Tolerance - 1, Tolerance}}

LookupPrices == {NULL, 0, 100, 110}

LookupInit ==
    \E n \in 0..MaxLen :
        \E ts \in [1..n -> LookupTimes], cl \in [1..n -> LookupPrices] :
            /\ Ascending(ts)
            /\ lk = [timestamps |-> ts, closes |-> cl, done |-> FALSE, out |-> NULL]
            /\ ft = IdleFrame
            /\ ftCall = NoCall
            /\ calc = CalcIdle /\ rows = NoRows /\ performanceData = NoCache
            /\ PageIdle
            /\ since = SinceIdle /\ form = FormIdle

Lookup ==
    /\ ~lk.done
    /\ UNCHANGED <<ft, ftCall, calc, rows, performanceData, pageVars, since, form>>
    /\ lk' = [lk EXCEPT !.done = TRUE,
                        !.out = findClosestPrice(lk.timestamps, lk.closes, LookupTarget)]

LookupNext == Lookup

SpecLookup == LookupInit /\ [][LookupNext]_vars

----------------------------------------------------------------------------
(* Specification Spec: the page. After init() the batch of the page load   *)
(* runs; the user starts further batches while the awaited network calls    *)
(* and timers settle in any order                                           *)

\* app.js: what a fetcher call returns besides null
BatchSeries == {Series(<<Day, 2 * Day>>, <<100, 110>>)}

\* app.js: the calls of fetchStockPerformance whose fetcher call may return
\* null: the call for '1mo', on which the whole of the symbol depends
BatchNullCalls == {1}

\* part_000: how a fetch settles
BatchResponses ==
    {Response("fail", "none", "none", NoPayload),
     Response("ok", "plain", "none", NoPayload),
     Response("ok", "plain", "none",
              Payload("result", TRUE, <<CalcNow - Day, CalcNow>>, TRUE, <<100, 110>>))}

BatchClock == Clock(CalcNow, CalcNow - 3 * Day)

\* what the three inputs of the custom date hold
BatchDates == {Date(1, 6, 2024), Date(NAN, 6, 2024), Date(32, 6, 2024)}

\* the slot of the next activation a user starts
NextSlot == runs + 2

\* init(): loadData finds nothing saved, buildPerformanceTable, and
\* fetchAllStockData up to its first await
Init ==
    /\ script \in {"app", "part"}
    /\ isLoading = TRUE
    /\ tasks = [t \in Slots |-> IF t = 1 THEN StartAll ELSE NoTask]
    /\ container = EmptyContainer /\ alert = "" /\ runs = 0
    /\ rows = NoRows /\ performanceData = NoCache
    /\ lk = LookupIdle /\ ft = IdleFrame /\ ftCall = NoCall /\ calc = CalcIdle
    /\ since = SinceIdle /\ form = FormIdle

\* fetchAllStockData() while a batch is loading: if (isLoading) return
FetchAllIgnored ==
    /\ isLoading
    /\ UNCHANGED <<script, isLoading, tasks, container, alert, runs, rows,
                   performanceData>>

\* fetchAllStockData() without the test of isLoading
FetchAllStartUnguarded ==
    /\ runs < MaxRuns
    /\ isLoading' = TRUE
    /\ tasks' = [tasks EXCEPT ![NextSlot] = StartAll]
    /\ runs' = runs + 1
    /\ UNCHANGED <<script, container, alert, rows, performanceData>>

\* fetchAllStockData() past its guard, up to its first await
FetchAllStart ==
    /\ ~isLoading
    /\ runs < MaxRuns
    /\ isLoading' = TRUE
    /\ tasks' = [tasks EXCEPT ![NextSlot] = StartAll]
    /\ runs' = runs + 1
    /\ UNCHANGED <<script, container, alert, rows, performanceData>>

\* fetchCustomDatePerformance() with a date that fails a check: the alert
RejectDate(date) ==
    /\ MissingField(date) \/ OutOfRange(date)
    /\ alert' = IF MissingField(date)
                THEN "Please enter a valid date (Day, Month, Year)"
                ELSE "Please enter a valid date"
    /\ runs' = runs + 1
    /\ UNCHANGED <<script, isLoading, tasks, container, rows, performanceData>>

\* fetchCustomDatePerformance() with a date past the checks, up to its first
\* await
AcceptDate(date) ==
    /\ ~MissingField(date) /\ ~OutOfRange(date)
    /\ container' = Container("loading", date, <<>>)
    /\ tasks' = [tasks EXCEPT ![NextSlot] = StartCustom(date)]
    /\ runs' = runs + 1
    /\ UNCHANGED <<script, isLoading, alert, rows, performanceData>>

\* fetchCustomDatePerformance() with inputs that fail a check
CustomRejected ==
    /\ runs < MaxRuns
    /\ \E date \in BatchDates : RejectDate(date)

\* fetchCustomDatePerformance() past its checks, up to its first await
CustomStart ==
    /\ runs < MaxRuns
    /\ \E date \in BatchDates : AcceptDate(date)

\* fetchStockPerformance of the iteration is resumed as l: the batch awaits
\* it again, or it ended, with its effect on the table, and sleep(300) begins
StockResume(t, l) ==
    LET ticker == STOCKS[tasks[t].idx]
    IN /\ tasks' = [tasks EXCEPT ![t].local = l,
                                 ![t].pc = IF l.pc = "done" THEN "sleep" ELSE "fetch"]
       /\ rows' = [rows EXCEPT ![ticker] = RowAfter(@, l)]
       /\ performanceData' = [performanceData EXCEPT ![ticker] = CacheAfter(@, l)]
       /\ UNCHANGED <<script, isLoading, container, alert, runs>>

\* app.js: the fetcher call a batch of fetchAllStockData awaits returns
StockResult(t) ==
    /\ script = "app" /\ tasks[t].kind = "all" /\ tasks[t].pc = "fetch"
    /\ \/ /\ tasks[t].local.call \in BatchNullCalls
          /\ StockResume(t, AppOnResult(tasks[t].local, "null", NoSeries))
       \/ \E series \in BatchSeries :
             StockResume(t, AppOnResult(tasks[t].local, "returned", series))

\* part_000: the fetch a batch of fetchAllStockData awaits settles
StockResponse(t) ==
    /\ script = "part" /\ tasks[t].kind = "all" /\ tasks[t].pc = "fetch"
    /\ \E resp \in BatchResponses :
          StockResume(t, PartOnResponse(tasks[t].local, resp, BatchClock))

\* the loop goes on to the next stock, or is left
Advance(task) ==
    IF task.idx < Len(STOCKS) THEN Enter(task, task.idx + 1) ELSE Leave(task)

\* sleep(300) of fetchAllStockData is over: the next iteration, or the end
Wake(t) ==
    /\ tasks[t].kind = "all" /\ tasks[t].pc = "sleep"
    /\ tasks' = [tasks EXCEPT ![t] = Advance(tasks[t])]
    /\ isLoading' = IF Advance(tasks[t]).pc = "done" THEN FALSE ELSE isLoading
    /\ UNCHANGED <<script, container, alert, runs, rows, performanceData>>

\* the custom loop after an iteration's try or catch: a caught error goes on
\* to the next iteration at once
CustomResume(task, o) ==
    LET after == CustomAfter(task, o)
    IN IF after.pc = "next" THEN Advance(after) ELSE after

\* displayCustomDateResults once the loop is left
Display(task) ==
    IF task.pc = "done" THEN Container("results", task.date, task.results)
    ELSE container

\* the network call fetchPerformanceSinceDate awaits settles
CustomResult(t) ==
    /\ tasks[t].kind = "custom" /\ tasks[t].pc = "fetch"
    /\ \E o \in IF script = "app"
                THEN {SinceDateApp("null", NoSeries)}
                     \cup {SinceDateApp("returned", s) : s \in BatchSeries}
                ELSE {SinceDatePart(resp) : resp \in BatchResponses} :
          /\ tasks' = [tasks EXCEPT ![t] = CustomResume(tasks[t], o)]
          /\ container' = Display(CustomResume(tasks[t], o))
    /\ UNCHANGED <<script, isLoading, alert, runs, rows, performanceData>>

\* sleep(300) of the custom loop is over
CustomWake(t) ==
    /\ tasks[t].kind = "custom" /\ tasks[t].pc = "sleep"
    /\ tasks' = [tasks EXCEPT ![t] = Advance(tasks[t])]
    /\ container' = Display(Advance(tasks[t]))
    /\ UNCHANGED <<script, isLoading, alert, runs, rows, performanceData>>

Resumed(t) ==
    StockResult(t) \/ StockResponse(t) \/ Wake(t) \/ CustomResult(t) \/ CustomWake(t)

Next ==
    \/ FetchAllIgnored /\ UNCHANGED <<lk, ft, ftCall, calc, since, form>>
    \/ FetchAllStart /\ UNCHANGED <<lk, ft, ftCall, calc, since, form>>
    \/ CustomRejected /\ UNCHANGED <<lk, ft, ftCall, calc, since, form>>
    \/ CustomStart /\ UNCHANGED <<lk, ft, ftCall, calc, since, form>>
    \/ \E t \in Slots : StockResult(t) /\ UNCHANGED <<lk, ft, ftCall, calc, since, form>>
    \/ \E t \in Slots : StockResponse(t) /\ UNCHANGED <<lk, ft, ftCall, calc, since, form>>
    \/ \E t \in Slots : Wake(t) /\ UNCHANGED <<lk, ft, ftCall, calc, since, form>>
    \/ \E t \in Slots : CustomResult(t) /\ UNCHANGED <<lk, ft, ftCall, calc, since, form>>
    \/ \E t \in Slots : CustomWake(t) /\ UNCHANGED <<lk, ft, ftCall, calc, since, form>>

Spec == Init /\ [][Next]_vars

\* an awaited fetch settles or a timer fires as long as there is one
FairSpec ==
    Spec /\ WF_vars(\E t \in Slots : Resumed(t) /\ UNCHANGED <<lk, ft, ftCall, calc, since, form>>)

----------------------------------------------------------------------------
(* Specification SpecSince: fetchPerformanceSinceDate against every fetch   *)
(* outcome and every short series                                           *)

SinceCloses == SeqsUpTo({NULL, 0, 100, 110}, MaxLen)

\* app.js: what fetchYahooDataByPeriod can return besides null
SinceSeries == {Series(TimesFor(cl), cl) : cl \in SinceCloses}

\* part_000: how the fetch can settle
SinceResponses ==
    ResponsesOver({NoPayload, Payload("noQuote", FALSE, <<>>, FALSE, <<>>),
                   Payload("result", TRUE, <<Day>>, FALSE, <<>>)})
    \cup {Response("ok", "plain", "none", Payload("result", TRUE, TimesFor(cl), TRUE, cl)) :
             cl \in SinceCloses}

\* fetchPerformanceSinceDate(ticker, targetDate) up to its await
SinceInit ==
    /\ \/ since = Since("app", "null", NoSeries, SinceIdle.response, FALSE, SinceIdle.out)
       \/ \E series \in SinceSeries :
             since = Since("app", "returned", series, SinceIdle.response, FALSE,
                           SinceIdle.out)
       \/ \E resp \in SinceResponses :
             since = Since("part", "null", NoSeries, resp, FALSE, SinceIdle.out)
    /\ lk = LookupIdle /\ ft = IdleFrame /\ ftCall = NoCall /\ calc = CalcIdle
    /\ rows = NoRows /\ performanceData = NoCache
    /\ PageIdle /\ form = FormIdle

\* app.js: the awaited fetcher call returns
SinceReturn ==
    /\ since.variant = "app" /\ ~since.done
    /\ since' = [since EXCEPT !.done = TRUE,
                              !.out = SinceDateApp(since.status, since.series)]

\* part_000: the awaited fetch settles
SinceRespond ==
    /\ since.variant = "part" /\ ~since.done
    /\ since' = [since EXCEPT !.done = TRUE, !.out = SinceDatePart(since.response)]

SinceNext ==
    \/ SinceReturn /\ UNCHANGED <<lk, ft, ftCall, calc, rows, performanceData, pageVars, form>>
    \/ SinceRespond /\ UNCHANGED <<lk, ft, ftCall, calc, rows, performanceData, pageVars, form>>

SpecSince == SinceInit /\ [][SinceNext]_vars

----------------------------------------------------------------------------
(* Specification SpecForm: fetchCustomDatePerformance against every content *)
(* of the three inputs, on the page that has just loaded                    *)

FormFields(Values) == {Field(v, t) : v \in Values, t \in {"", "abc"}}

FormDays == FormFields({NAN, 0, 1, 31, 32})

FormMonths == FormFields({NAN, 1, 12, 13})

FormYears == FormFields({NAN, 1999, 2000, 2100, 2101})

\* init() as in Init, and the user has filled in the inputs
FormInit ==
    /\ script \in {"app", "part"}
    /\ isLoading = TRUE
    /\ tasks = [t \in Slots |-> IF t = 1 THEN StartAll ELSE NoTask]
    /\ container = EmptyContainer /\ alert = "" /\ runs = 0
    /\ rows = NoRows /\ performanceData = NoCache
    /\ lk = LookupIdle /\ ft = IdleFrame /\ ftCall = NoCall /\ calc = CalcIdle
    /\ since = SinceIdle
    /\ form \in {Form(d, m, y) : d \in FormDays, m \in FormMonths, y \in FormYears}

\* fetchCustomDatePerformance() returns at a check
FormRejected ==
    /\ runs < MaxRuns
    /\ RejectDate(ParsedDate(form))

\* fetchCustomDatePerformance() runs up to its first await
FormStart ==
    /\ runs < MaxRuns
    /\ AcceptDate(ParsedDate(form))

FormNext ==
    \/ FormRejected /\ UNCHANGED <<lk, ft, ftCall, calc, since, form>>
    \/ FormStart /\ UNCHANGED <<lk, ft, ftCall, calc, since, form>>

SpecForm == FormInit /\ [][FormNext]_vars

----------------------------------------------------------------------------
(* C1, C9, C10: the performance of one symbol *)

CalcDone == calc.l.pc = "done"

\* the activation produced a PerformanceResult: it displayed and cached one
Produced == CalcDone /\ calc.l.effect = "update"

IsNumber(v) == v.k \in {"num", "NaN", "Infinity", "-Infinity"}

Unavailable(performance, p) == p \notin DOMAIN performance \/ performance[p].k = "null"

\* The statement of C1 as given: whatever the fetch met, the result has one
\* entry per window, each a number or null, all null when the fetch failed.
C1_OneEntryPerWindow ==
    CalcDone =>
        /\ DOMAIN calc.l.performance = Periods
        /\ \A p \in Periods :
              IsNumber(calc.l.performance[p]) \/ calc.l.performance[p].k = "null"
        /\ calc.l.effect # "update" =>
              \A p \in Periods : calc.l.performance[p].k = "null"

\* C1 (amended): a PerformanceResult is produced only when the fetch yields
\* a series; it has no entry but for the five windows, each a number or
\* null: in part_000 exactly one entry per window, in app.js an entry only
\* for the windows whose data were fetched and long enough (1d from two
\* closes on, 1w from six on), the windows without entry being displayed as
\* unavailable. When the fetch fails no PerformanceResult is produced: the
\* row shows Error or is left as it was, and the cache is left as it was.
C1_EntriesOfResult ==
    CalcDone =>
        LET l == calc.l
            t == calc.ticker
        IN /\ DOMAIN l.performance \subseteq Periods
           /\ \A p \in DOMAIN l.performance :
                 IsNumber(l.performance[p]) \/ l.performance[p].k = "null"
           /\ Produced /\ calc.variant = "part" => DOMAIN l.performance = Periods
           /\ Produced /\ calc.variant = "app" =>
                 /\ "1d" \in DOMAIN l.performance <=> Len(l.closes) >= 2
                 /\ "1w" \in DOMAIN l.performance <=> Len(l.closes) >= 6
                 /\ \A p \in {"3m", "12m", "ytd"} :
                       p \in DOMAIN l.performance <=>
                           p \in DOMAIN l.historical /\ Truthy(l.historical[p])
           /\ Produced =>
                 /\ performanceData[t] = Cached(l.performance)
                 /\ \A p \in Periods :
                       rows[t][p].text = IF Unavailable(l.performance, p) THEN "--" ELSE "pct"
           /\ ~Produced =>
                 /\ l.performance = EmptyPerformance
                 /\ performanceData[t] = NotCached
                 /\ rows[t] \in {ErrorRow, LoadingRow}
           /\ \A u \in StockSet \ {t} :
                 rows[u] = LoadingRow /\ performanceData[u] = NotCached

\* part_000 produced a result with a number for one window and null for another
C1_Witness ==
    /\ Produced
    /\ calc.variant = "part"
    /\ \E p, q \in Periods :
          calc.l.performance[p].k = "num" /\ calc.l.performance[q].k = "null"

\* the last close that is not absent, UNDEF when there is none
LastPriced(closes) ==
    LET S == {i \in 1..Len(closes) : closes[i] # NULL}
    IN IF S = {} THEN UNDEF
       ELSE closes[CHOOSE i \in S : \A j \in S : i >= j]

\* C9: the latest price of every window's percentage is the last non-absent
\* close of the series: a window that has a historical price shows the
\* change from it to the last priced close, also when the final close is
\* null.
C9_LatestIsLastPriced ==
    Produced =>
        \A p \in DOMAIN calc.l.historical :
            LET latest == LastPriced(calc.l.closes)
                price == calc.l.historical[p]
            IN Truthy(price) /\ Truthy(latest) =>
                  /\ p \in DOMAIN calc.l.performance
                  /\ calc.l.performance[p] = PercentChange(latest, price)

\* C10: a window whose latest price or historical price is absent, or whose
\* lookup found nothing, is unavailable, and no window holds the outcome of
\* a division by an absent or zero price.
C10_AbsentIsUnavailable ==
    Produced =>
        \A p \in Periods :
            /\ (\/ calc.l.currentPrice \in {NULL, UNDEF}
                \/ p \notin DOMAIN calc.l.historical
                \/ calc.l.historical[p] \in {NULL, UNDEF, 0})
                  => Unavailable(calc.l.performance, p)
            /\ p \in DOMAIN calc.l.performance =>
                  calc.l.performance[p].k \in {"num", "null"}

----------------------------------------------------------------------------
(* C2 *)

\* indices (0-based) of the entries whose close is not absent
Present(closes) == {i \in 0..(Len(closes) - 1) : closes[i + 1] # NULL}

Dist(timestamps, i, T) == Abs(timestamps[i + 1] - T)

\* the lowest-indexed entry among those nearest to T
Nearest(timestamps, closes, T) ==
    CHOOSE i \in Present(closes) :
        \A j \in Present(closes) :
            \/ Dist(timestamps, i, T) < Dist(timestamps, j, T)
            \/ Dist(timestamps, i, T) = Dist(timestamps, j, T) /\ i <= j

\* C2: findClosestPrice returns the close of the lowest-indexed entry that
\* minimises |timestamp - T| among the entries with a non-absent close, and
\* returns null exactly when there is no such entry or that minimum is at
\* least 5 * 86400 seconds.
C2_NearestPrice ==
    lk.done =>
        LET ts == lk.timestamps
            cl == lk.closes
            unavailable ==
                \/ Present(cl) = {}
                \/ Dist(ts, Nearest(ts, cl, LookupTarget), LookupTarget) >= Tolerance
        IN IF unavailable
           THEN lk.out = NULL
           ELSE /\ lk.out = cl[Nearest(ts, cl, LookupTarget) + 1]
                /\ lk.out # NULL

\* two equidistant priced entries with different closes, within tolerance
C2_Witness ==
    /\ lk.done
    /\ \E i, j \in Present(lk.closes) :
          /\ i < j
          /\ Dist(lk.timestamps, i, LookupTarget) = Dist(lk.timestamps, j, LookupTarget)
          /\ lk.closes[i + 1] # lk.closes[j + 1]
          /\ Nearest(lk.timestamps, lk.closes, LookupTarget) = i
    /\ lk.out # NULL

----------------------------------------------------------------------------
(* C3, C4, C5: the fetcher *)

\* The payload that the proxy at index i reads out of resp, when it reads one
ReadsPayload(i, resp) ==
    /\ resp.status = "ok"
    /\ IF CORS_PROXIES[i].wrapped
       THEN resp.body = "wrapped" /\ resp.inner = "json"
       ELSE resp.body = "plain"

\* resp is a success status whose payload, as endpoint i reads it, contains
\* chart.result[0]
HasResult(i, resp) == ReadsPayload(i, resp) /\ resp.payload.shape # "noResult"

\* ... and chart.result[0].indicators.quote[0] as well
HasQuote(i, resp) == ReadsPayload(i, resp) /\ resp.payload.shape = "result"

Ended == ft.status \in {"returned", "null", "raised"}

InOrder(requested) == \A i \in 1..Len(requested) : requested[i] = i

\* The statement of C3 as given: the winning endpoint is the first one whose
\* response is a success status with a payload containing chart.result[0].
C3_FirstWithResult ==
    /\ InOrder(ft.requested)
    /\ \A i \in 1..Len(ft.received) :
          HasResult(i, ft.received[i]) =>
              /\ ft.status = "returned"
              /\ i = Len(ft.received)
              /\ Len(ft.requested) = i
              /\ ft.value = Series(ft.received[i].payload.timestamp,
                                   ft.received[i].payload.close)

\* C3 (amended): in every call the endpoints are requested in list order
\* from the first; the call returns the series of the first endpoint whose
\* response is a success status with a payload containing chart.result[0]
\* and its indicators.quote[0], and requests no endpoint after that one.
C3_FirstReadable ==
    /\ InOrder(ft.requested)
    /\ ft.status = "running" => Len(ft.requested) = Len(ft.received) + 1
    /\ Ended => Len(ft.requested) = Len(ft.received)
    /\ \A i \in 1..Len(ft.received) :
          HasQuote(i, ft.received[i]) =>
              /\ ft.status = "returned"
              /\ i = Len(ft.received)
              /\ ft.value = Series(ft.received[i].payload.timestamp,
                                   ft.received[i].payload.close)
    /\ ft.status = "returned" =>
          HasQuote(Len(ft.received), ft.received[Len(ft.received)])

\* endpoint 1 answers a non-success status, endpoint 2 a valid wrapped
\* envelope, in a call made after a call that every endpoint failed
C3_Witness ==
    /\ ftCall.prev = "null"
    /\ ft.status = "returned"
    /\ ft.requested = <<1, 2>>
    /\ ft.received[1].status = "fail"
    /\ ft.received[2].body = "wrapped"
    /\ ft.value = Series(<<1 * Day, 2 * Day>>, <<100, NULL>>)

\* C4: a fetcher call never raises, and when every endpoint fails (network
\* error, non-success status, unparsable body, missing or malformed payload)
\* it returns null after requesting each endpoint exactly once.
C4_NullNotRaise ==
    /\ ft.status # "raised"
    /\ ft.status = "null" =>
          /\ Len(ft.requested) = Len(CORS_PROXIES)
          /\ InOrder(ft.requested)
          /\ \A i \in 1..Len(ft.received) : ~HasQuote(i, ft.received[i])
    /\ (/\ Len(ft.received) = Len(CORS_PROXIES)
        /\ \A i \in 1..Len(ft.received) : ~HasQuote(i, ft.received[i]))
          => ft.status = "null"

\* a network error, an unparsable wrapped body and a result without quote
C4_Witness ==
    /\ ft.status = "null"
    /\ ft.received[1].status = "neterr"
    /\ ft.received[2].inner = "garbage"
    /\ ft.received[3].payload.shape = "noQuote"
    /\ ft.received[3].body = "plain"

----------------------------------------------------------------------------
(* C6, C7, C8: the batches *)

Started(t) == tasks[t].kind # "none"

\* the iterations begun so far are those of the first idx stocks, in order
VisitedInOrder(t) == tasks[t].visited = SubSeq(STOCKS, 1, tasks[t].idx)

\* a batch that ended went through the whole catalog; a custom batch has one
\* entry per stock, in order
WholeCatalog(t) ==
    /\ tasks[t].visited = STOCKS
    /\ tasks[t].kind = "custom" =>
          /\ Len(tasks[t].results) = Len(STOCKS)
          /\ \A i \in 1..Len(STOCKS) : tasks[t].results[i].ticker = STOCKS[i]

\* C6: every batch, of fetchAllStockData or of fetchCustomDatePerformance,
\* begins one iteration per stock of STOCKS, each stock once and in the order
\* of STOCKS, no exception leaves its loop, and, as long as every awaited
\* fetch settles and every timer fires, it reaches its end having gone
\* through all of STOCKS, whichever of its stocks failed: in the end every
\* batch that was started has ended.
C6_EveryStockOnceInOrder ==
    /\ [](\A t \in Slots :
            Started(t) =>
               /\ VisitedInOrder(t)
               /\ tasks[t].pc # "aborted"
               /\ tasks[t].pc = "done" => WholeCatalog(t))
    /\ <>[](\A t \in Slots : Started(t) => tasks[t].pc = "done")

\* a custom batch and the batch of the page load have ended, both with a
\* first stock that failed and a last stock that was fetched
C6_Witness ==
    /\ tasks[1].pc = "done"
    /\ rows[STOCKS[1]] = ErrorRow
    /\ rows[STOCKS[Len(STOCKS)]] \notin {ErrorRow, LoadingRow}
    /\ \E t \in Slots :
          /\ tasks[t].kind = "custom" /\ tasks[t].pc = "done"
          /\ tasks[t].results[1].error
          /\ ~tasks[t].results[Len(STOCKS)].error

\* C7: a batch moves on to its next stock only when a sleep(300) is over,
\* whether the stock before was fetched or failed.
C7_DelayBetweenStocks ==
    [][\A t \in Slots :
          (Started(t) /\ tasks'[t].idx # tasks[t].idx) => tasks[t].pc = "sleep"]_vars

InFlight == {t \in Slots : Started(t) /\ tasks[t].pc = "fetch"}

\* C8: at most one batch awaits a network request at any time.
C8_OneRequestInFlight == Cardinality(InFlight) <= 1

----------------------------------------------------------------------------
(* C11: empty and all-absent series *)

AllAbsent(closes) == \A i \in 1..Len(closes) : closes[i] = NULL

\* every series the activation fetched was empty or held absent prices only:
\* in part_000 the answered payload, in app.js the 1mo series and the period
\* series (a period series with a price leaves its first price in historical)
FetchedNothingPriced ==
    /\ CalcDone
    /\ calc.variant = "part" =>
          /\ calc.response.status = "ok"
          /\ Decode(CORS_PROXY, calc.response).kind = "data"
          /\ Decode(CORS_PROXY, calc.response).value.shape = "result"
          /\ calc.response.payload.hasTimestamp /\ calc.response.payload.hasClose
          /\ Len(calc.response.payload.timestamp) = Len(calc.response.payload.close)
          /\ AllAbsent(calc.response.payload.close)
    /\ calc.variant = "app" =>
          /\ calc.l.call = 4
          /\ AllAbsent(calc.l.closes)
          /\ \A p \in DOMAIN calc.l.historical \ {"1d", "1w"} :
                calc.l.historical[p] \in {NULL, UNDEF}

\* C11: a symbol whose fetched series is empty or holds absent prices only
\* gets a result with the unavailable marker for each of the five windows,
\* shown as "--": no Error row, no missing result, no number.
C11_NothingPricedAllUnavailable ==
    FetchedNothingPriced =>
        /\ Produced
        /\ \A p \in Periods : Unavailable(calc.l.performance, p)
        /\ rows[calc.ticker] = [p \in Periods |-> DashCell]

----------------------------------------------------------------------------
(* C12: fetchPerformanceSinceDate on short series *)

\* the closes of the fetched series, none when the fetch yielded no series
SinceFetched ==
    IF since.variant = "app"
    THEN IF since.status = "returned" THEN since.series.closes ELSE <<>>
    ELSE IF /\ since.response.status = "ok"
            /\ Decode(CORS_PROXY, since.response).kind = "data"
            /\ Decode(CORS_PROXY, since.response).value.shape = "result"
         THEN Decode(CORS_PROXY, since.response).value.close
         ELSE <<>>

\* how many prices of the fetched series are not absent
Usable == Cardinality({i \in 1..Len(SinceFetched) : SinceFetched[i] # NULL})

\* C12: fetchPerformanceSinceDate raises whenever the fetched series holds
\* fewer than two prices that are not absent, and returns a percentage only
\* when it holds at least two.
C12_RaisesBelowTwoPrices ==
    since.done =>
        /\ Usable < 2 => since.out.kind = "throw"
        /\ (since.out.kind = "value" /\ since.out.value.k # "null") => Usable >= 2

----------------------------------------------------------------------------
(* C13: the rows after a batch *)

\* the batch in slot t has just ended the fetch of a stock, which failed
JustFailed(t) ==
    /\ tasks[t].kind = "all" /\ tasks[t].pc = "sleep"
    /\ tasks[t].local.effect # "update"

\* C13: a stock of a batch whose fetch failed outright has the row Error in
\* all five cells, and once a batch has ended no row is left Loading.
C13_FailedRowsShowError ==
    \A t \in Slots :
        /\ JustFailed(t) => rows[STOCKS[tasks[t].idx]] = ErrorRow
        /\ (tasks[t].kind = "all" /\ tasks[t].pc = "done") =>
              \A s \in StockSet : rows[s] # LoadingRow

----------------------------------------------------------------------------
(* C14: the checks of the custom date *)

\* the input holds a number and nothing else
Numeric(field) == field.digits # NAN /\ field.tail = ""

\* a field is missing or not numeric, or the date is out of the ranges
Malformed(f) ==
    \/ ~Numeric(f.day) \/ ~Numeric(f.month) \/ ~Numeric(f.year)
    \/ f.day.digits \notin 1..31
    \/ f.month.digits \notin 1..12
    \/ f.year.digits \notin 2000..2100

CustomBegun == \E t \in Slots : tasks[t].kind = "custom"

\* C14: fetchCustomDatePerformance rejects the inputs whenever a field is
\* missing or not numeric or the date is out of the ranges: it then starts
\* no fetch and leaves the cache and the custom-dates container as they
\* were; it starts fetching only for inputs that pass all the checks.
C14_MalformedDateRejected ==
    runs > 0 =>
        /\ Malformed(form) =>
              /\ ~CustomBegun
              /\ container = EmptyContainer
              /\ performanceData = NoCache
        /\ CustomBegun => ~Malformed(form)

----------------------------------------------------------------------------
(* C15: isLoading *)

\* the batches of fetchAllStockData whose loop has not ended
ActiveAll == {t \in Slots : tasks[t].kind = "all" /\ tasks[t].pc # "done"}

\* C15: at most one batch of fetchAllStockData is active at a time, isLoading
\* is true exactly while one is active, so that it is false again once the
\* batch has ended, whichever stocks failed, and a new batch can then start.
C15_OneBatchWhileLoading ==
    /\ Cardinality(ActiveAll) <= 1
    /\ isLoading <=> ActiveAll # {}
    /\ (~isLoading /\ runs < MaxRuns) => ENABLED FetchAllStart

\* the batch of the page load has ended with its last stock failed, and a
\* second batch of fetchAllStockData is fetching its first stock
C15_Witness ==
    /\ tasks[1].kind = "all" /\ tasks[1].pc = "done"
    /\ rows[STOCKS[Len(STOCKS)]] = ErrorRow
    /\ \E t \in Slots \ {1} :
          tasks[t].kind = "all" /\ tasks[t].pc = "fetch" /\ tasks[t].idx = 1
    /\ isLoading

====
